---- MODULE Spec2Model ----
(***************************************************************************)
(* The BSP superstep engine of libgrape-lite: ParallelWorker (Init, Query, *)
(* Output) driving a message channel, and WCCAutoContext (the keep-minimum *)
(* sync buffer and its Output).  One process per fragment; the processes   *)
(* interleave freely except at the collectives (MPI_Barrier, the exchange  *)
(* inside FinishARound, the reduction inside ToTerminate).                 *)
(***************************************************************************)
EXTENDS Integers, Sequences, FiniteSets, TLC

\* ------------------------------------------------------------ bounds
\* Query calls made on one worker.
MaxQueries == 2
\* Output calls made after one query.
MaxOutputs == 2
\* std::numeric_limits<cid_t>::max(), for a cid_t scaled to the model.
CidMax == 11
\* Incoming values of one merge experiment.
MaxIncoming == 3

VARIABLES
  scn,                \* the partitioned graph the workers were built on
  pc,                 \* per fragment: the statement of the worker it is at
  inColl,             \* per fragment: inside a collective call, not yet returned
  round,              \* per fragment: Query's local `round`
  nQuery,             \* per fragment: Query calls made so far
  ctxInits,           \* per fragment: Context.Init calls completed so far
  global_cluster_id,  \* per fragment: the sync buffer, vertex -> value
  local_comp_id,      \* per fragment: the transient array, inner vertex -> value
  data,               \* per fragment: VertexDataContext's result data
  registered,         \* per fragment: sync buffers registered with the channel
  updated,            \* per fragment: vertices with a pending outgoing update
  net,                \* messages flushed and not yet received
  sentNow,            \* per fragment: messages sent in the round last flushed
  barEpoch,           \* per fragment: barriers entered
  farEpoch,           \* per fragment: FinishARound calls entered
  ttContrib,          \* per fragment: the counts contributed to ToTerminate
  trace,              \* per fragment: the calls made so far (history)
  nPEval,             \* per fragment: PEval invocations in this query (history)
  nIncEval,           \* per fragment: IncEval invocations in this query (history)
  sentLog,            \* per fragment: messages sent per round of this query (history)
  exitRound,          \* per fragment: the round after which the loop was left, or -1
  out,                \* per fragment: the lines the last Output call wrote
  nOut,               \* per fragment: Output calls since the last query
  m_start,            \* merge experiment: the starting buffer value
  m_in,               \* merge experiment: the incoming values, as a sorted list
  m_cur,              \* merge experiment: the buffer value now
  m_pending,          \* merge experiment: incoming values not yet applied
  m_last,             \* merge experiment: the value applied last, and what came of it
  m_again             \* merge experiment: the result of re-applying the last value

wvars == <<scn, pc, inColl, round, nQuery, ctxInits, global_cluster_id,
           local_comp_id, data, registered, updated, net, sentNow, barEpoch,
           farEpoch, ttContrib, trace, nPEval, nIncEval, sentLog, exitRound,
           out, nOut>>
mvars == <<m_start, m_in, m_cur, m_pending, m_last, m_again>>
vars == <<wvars, mvars>>

\* ------------------------------------------------------------ helpers
Min(S) == CHOOSE x \in S : \A y \in S : x <= y

Range(s) == {s[i] : i \in 1..Len(s)}

\* ------------------------------------------------------------ fragments
\* A fragment numbers the vertices it knows 1..tvnum, inner vertices first;
\* gids[f][v] is the global id of local vertex v.  Edges are kept by global id.

\* Fragment 0 owns {1,2} with edge (1,2) and a ghost of 3; fragment 1 owns
\* {3} with edge (2,3) and ghosts of {1,2}; every inner vertex is seeded
\* with its own global id.
ToyGraph ==
  [name  |-> "toy",
   fnum  |-> 2,
   ivnum |-> (0 :> 2 @@ 1 :> 1),
   gids  |-> (0 :> <<1, 2, 3>> @@ 1 :> <<3, 1, 2>>),
   edges |-> (0 :> {<<1, 2>>} @@ 1 :> {<<2, 3>>}),
   seed  |-> (1 :> 1 @@ 2 :> 2 @@ 3 :> 3)]

\* The toy graph plus a third fragment owning an isolated vertex.
ChainGraph ==
  [name  |-> "chain",
   fnum  |-> 3,
   ivnum |-> (0 :> 2 @@ 1 :> 1 @@ 2 :> 1),
   gids  |-> (0 :> <<1, 2, 3>> @@ 1 :> <<3, 1, 2>> @@ 2 :> <<4>>),
   edges |-> (0 :> {<<1, 2>>} @@ 1 :> {<<2, 3>>} @@ 2 :> {}),
   seed  |-> (1 :> 1 @@ 2 :> 2 @@ 3 :> 3 @@ 4 :> 4)]

\* One fragment owning three vertices, labelled 10, 10 and 7.
SingleGraph ==
  [name  |-> "single",
   fnum  |-> 1,
   ivnum |-> (0 :> 3),
   gids  |-> (0 :> <<1, 2, 3>>),
   edges |-> (0 :> {<<1, 2>>}),
   seed  |-> (1 :> 10 @@ 2 :> 10 @@ 3 :> 7)]

Graphs == {ToyGraph, ChainGraph, SingleGraph}

Frags == 0..(scn.fnum - 1)

\* frag.Vertices() and frag.InnerVertices(), in iteration order.
Vertices(f) == 1..Len(scn.gids[f])
InnerVertices(f) == 1..scn.ivnum[f]
OuterVertices(f) == Vertices(f) \ InnerVertices(f)

\* frag.GetId(v)
GetId(f, v) == scn.gids[f][v]

\* The local vertex of fragment f with global id g.
Gid2Vertex(f, g) == CHOOSE v \in Vertices(f) : GetId(f, v) = g

\* The fragment owning global id g.
Owner(g) == CHOOSE f \in Frags : \E v \in InnerVertices(f) : GetId(f, v) = g

\* The fragments holding a ghost copy of global id g.
GhostHolders(g) == {f \in Frags : \E v \in OuterVertices(f) : GetId(f, v) = g}

\* ------------------------------------------------------------ the sync buffer
\* The merge lambda of WCCAutoContext::Init: keep the smaller value, and
\* say whether the stored value changed.
MergeKeepLarger(lhs, rhs) ==
  IF lhs < rhs THEN [val |-> rhs, changed |-> TRUE]
  ELSE [val |-> lhs, changed |-> FALSE]

MergeNotStrict(lhs, rhs) ==
  IF lhs >= rhs THEN [val |-> rhs, changed |-> TRUE]
  ELSE [val |-> lhs, changed |-> FALSE]

MergeOverwrite(lhs, rhs) ==
  IF lhs # rhs THEN [val |-> rhs, changed |-> TRUE]
  ELSE [val |-> lhs, changed |-> FALSE]

Merge(lhs, rhs) ==
  IF lhs > rhs THEN [val |-> rhs, changed |-> TRUE]
  ELSE [val |-> lhs, changed |-> FALSE]

\* SyncBuffer::Init(range, value): every entry of the range set to value.
BufferInit(range, value) == [v \in range |-> value]

ReusedBuffer(f) ==
  IF global_cluster_id[f] = <<>> THEN BufferInit(Vertices(f), CidMax)
  ELSE global_cluster_id[f]

\* global_cluster_id of the context Query has just made, after its Init.
FreshBuffer(f) == BufferInit(Vertices(f), CidMax)

RegisterNothing(f) == 0

\* messages.RegisterSyncBuffer(frag, &global_cluster_id, kSyncOnOuterVertex):
\* the channel holds the buffer of this query's context.
RegisterSyncBuffer(f) == nQuery[f]

\* ------------------------------------------------------------ the algorithm
\* The vertices adjacent to local vertex v over the edges fragment f holds.
Nbrs(f, v) ==
  {u \in Vertices(f) : <<GetId(f, u), GetId(f, v)>> \in scn.edges[f]
                       \/ <<GetId(f, v), GetId(f, u)>> \in scn.edges[f]}

\* PEval: every inner vertex is seeded with its label.
PEvalValues(f, vals) ==
  [v \in Vertices(f) |->
     IF v \in InnerVertices(f) THEN scn.seed[GetId(f, v)] ELSE vals[v]]

\* One sweep of minimum-label propagation over the local edges.
RelaxOnce(f, vals) ==
  [v \in Vertices(f) |-> Min({vals[v]} \cup {vals[u] : u \in Nbrs(f, v)})]

RECURSIVE Propagate(_, _)
\* IncEval: propagate to the local fixed point.
Propagate(f, vals) ==
  LET nv == RelaxOnce(f, vals)
  IN IF nv = vals THEN vals ELSE Propagate(f, nv)

\* The vertices whose value differs between two buffer contents.
Changed(f, old, new) == {v \in Vertices(f) : old[v] # new[v]}

\* ------------------------------------------------------------ the channel
\* The fragments an update of local vertex v of fragment f goes to: the owner
\* when v is a ghost, every ghost holder when v is owned.
Targets(f, v) ==
  IF v \in InnerVertices(f) THEN GhostHolders(GetId(f, v)) \ {f}
  ELSE {Owner(GetId(f, v))}

\* The messages fragment f flushes when it finishes a round.
Outgoing(f) ==
  IF registered[f] # nQuery[f] THEN {}
  ELSE
  {[src |-> f, dst |-> g, gid |-> GetId(f, v),
    val |-> global_cluster_id[f][v], ep |-> farEpoch[f] + 1] :
     <<v, g>> \in {e \in updated[f] \X Frags : e[2] \in Targets(f, e[1])}}

\* The messages of fragment f's current exchange still to be received.
Inbox(f) == {m \in net : m.dst = f /\ m.ep = farEpoch[f]}

\* The exchange of fragment f's round is complete: every fragment has flushed
\* the round, and f has received all that was sent to it.
ExchangeDone(f) ==
  /\ \A g \in Frags : farEpoch[g] >= farEpoch[f]
  /\ Inbox(f) = {}

\* The reduction of ToTerminate can return to f: every fragment contributed.
ReductionDone(f) ==
  \A g \in Frags : Len(ttContrib[g]) >= Len(ttContrib[f])

TerminateLocal(f) == ttContrib[f][Len(ttContrib[f])] = 0

\* ToTerminate's result for f: no fragment sent a message in the round.
TerminateResult(f) ==
  \A g \in Frags : ttContrib[g][Len(ttContrib[f])] = 0

\* ------------------------------------------------------------ the worker
\* MPI_Barrier returns to f once every process has entered it.
BarrierPasses(f) == \A g \in Frags : barEpoch[g] >= barEpoch[f]

NoBarrier(f) == TRUE

\* Query's entry barrier.
EntryBarrierReturns(f) == BarrierPasses(f)

BarrierNeverReturns(f) == FALSE

\* Query's exit barrier.
ExitBarrierReturns(f) == BarrierPasses(f)

LoopWhileTerminate(t) == t

\* while (!messages_.ToTerminate())
LoopContinues(t) == ~t

RoundForgotten(r) == r

\* round++
RoundInc(r) == r + 1

PcAfterNoStartARound(p) ==
  CASE p = "EntryBarrier"    -> "ContextInit"
    [] p = "ContextInit"     -> "RoundZero"
    [] p = "RoundZero"       -> "Start"
    [] p = "Start"           -> "StartARound"
    [] p = "StartARound"     -> "PEval"
    [] p = "PEval"           -> "FinishARound"
    [] p = "FinishARound"    -> "ToTerminate"
    [] p = "RoundInc"        -> "IncEval"
    [] p = "StartARoundInc"  -> "IncEval"
    [] p = "IncEval"         -> "FinishARoundInc"
    [] p = "FinishARoundInc" -> "ToTerminate"
    [] p = "ExitBarrier"     -> "Finalize"
    [] p = "Finalize"        -> "ready"

PcAfterSkipFinish(p) ==
  CASE p = "EntryBarrier"    -> "ContextInit"
    [] p = "ContextInit"     -> "RoundZero"
    [] p = "RoundZero"       -> "Start"
    [] p = "Start"           -> "StartARound"
    [] p = "StartARound"     -> "PEval"
    [] p = "PEval"           -> "FinishARound"
    [] p = "FinishARound"    -> "ToTerminate"
    [] p = "RoundInc"        -> "StartARoundInc"
    [] p = "StartARoundInc"  -> "IncEval"
    [] p = "IncEval"         -> "ToTerminate"
    [] p = "FinishARoundInc" -> "ToTerminate"
    [] p = "ExitBarrier"     -> "Finalize"
    [] p = "Finalize"        -> "ready"

PcAfterFinishTwice(p) ==
  CASE p = "EntryBarrier"    -> "ContextInit"
    [] p = "ContextInit"     -> "RoundZero"
    [] p = "RoundZero"       -> "Start"
    [] p = "Start"           -> "StartARound"
    [] p = "StartARound"     -> "PEval"
    [] p = "PEval"           -> "FinishARound"
    [] p = "FinishARound"    -> "FinishARoundInc"
    [] p = "RoundInc"        -> "StartARoundInc"
    [] p = "StartARoundInc"  -> "IncEval"
    [] p = "IncEval"         -> "FinishARoundInc"
    [] p = "FinishARoundInc" -> "ToTerminate"
    [] p = "ExitBarrier"     -> "Finalize"
    [] p = "Finalize"        -> "ready"

\* The statement of Query that follows statement p (the loop test apart).
PcAfter(p) ==
  CASE p = "EntryBarrier"    -> "ContextInit"
    [] p = "ContextInit"     -> "RoundZero"
    [] p = "RoundZero"       -> "Start"
    [] p = "Start"           -> "StartARound"
    [] p = "StartARound"     -> "PEval"
    [] p = "PEval"           -> "FinishARound"
    [] p = "FinishARound"    -> "ToTerminate"
    [] p = "RoundInc"        -> "StartARoundInc"
    [] p = "StartARoundInc"  -> "IncEval"
    [] p = "IncEval"         -> "FinishARoundInc"
    [] p = "FinishARoundInc" -> "ToTerminate"
    [] p = "ExitBarrier"     -> "Finalize"
    [] p = "Finalize"        -> "ready"

\* The statement the loop test leads to.
PcAfterLoopTest(t) == IF LoopContinues(t) THEN "RoundInc" ELSE "ExitBarrier"

\* The text Output writes for one vertex.
OutputLine(f, v) ==
  ToString(GetId(f, v)) \o " " \o ToString(global_cluster_id[f][v])

RECURSIVE LinesOf(_, _, _)
LinesOf(f, v, last) ==
  IF v > last THEN <<>> ELSE <<OutputLine(f, v)>> \o LinesOf(f, v + 1, last)

OutputAllVertices(f) == LinesOf(f, 1, Len(scn.gids[f]))

\* WCCAutoContext::Output: one line per inner vertex, in iteration order.
OutputLines(f) == LinesOf(f, 1, scn.ivnum[f])

\* ------------------------------------------------------------ initial state
NoMerge == [x |-> CidMax, val |-> CidMax, changed |-> FALSE, done |-> FALSE]

WorkerInitState ==
  /\ pc = [f \in Frags |-> "constructed"]
  /\ inColl = [f \in Frags |-> FALSE]
  /\ round = [f \in Frags |-> 0]
  /\ nQuery = [f \in Frags |-> 0]
  /\ ctxInits = [f \in Frags |-> 0]
  /\ global_cluster_id = [f \in Frags |-> <<>>]
  /\ local_comp_id = [f \in Frags |-> <<>>]
  /\ data = [f \in Frags |-> <<>>]
  /\ registered = [f \in Frags |-> 0]
  /\ updated = [f \in Frags |-> {}]
  /\ net = {}
  /\ sentNow = [f \in Frags |-> 0]
  /\ barEpoch = [f \in Frags |-> 0]
  /\ farEpoch = [f \in Frags |-> 0]
  /\ ttContrib = [f \in Frags |-> <<>>]
  /\ trace = [f \in Frags |-> <<>>]
  /\ nPEval = [f \in Frags |-> 0]
  /\ nIncEval = [f \in Frags |-> 0]
  /\ sentLog = [f \in Frags |-> <<>>]
  /\ exitRound = [f \in Frags |-> -1]
  /\ out = [f \in Frags |-> <<>>]
  /\ nOut = [f \in Frags |-> 0]

Init ==
  /\ scn \in Graphs
  /\ WorkerInitState
  /\ m_start = CidMax
  /\ m_in = <<>>
  /\ m_cur = CidMax
  /\ m_pending = <<>>
  /\ m_last = NoMerge
  /\ m_again = NoMerge

\* ------------------------------------------------------------ ParallelWorker
\* ParallelWorker::Init: the fragment is prepared, the channel initialized.
WorkerInit(f) ==
  /\ pc[f] = "constructed"
  /\ pc' = [pc EXCEPT ![f] = "ready"]
  /\ trace' = [trace EXCEPT ![f] = Append(@, "Init")]
  /\ UNCHANGED <<scn, inColl, round, nQuery, ctxInits, global_cluster_id,
                 local_comp_id, data, registered, updated, net, sentNow,
                 barEpoch, farEpoch, ttContrib, nPEval, nIncEval, sentLog,
                 exitRound, out, nOut, mvars>>

\* Query is called and enters its first statement, MPI_Barrier.
QueryCall(f) ==
  /\ pc[f] = "ready"
  /\ nQuery[f] < MaxQueries
  /\ pc' = [pc EXCEPT ![f] = "EntryBarrier"]
  /\ inColl' = [inColl EXCEPT ![f] = TRUE]
  /\ barEpoch' = [barEpoch EXCEPT ![f] = @ + 1]
  /\ nQuery' = [nQuery EXCEPT ![f] = @ + 1]
  /\ nPEval' = [nPEval EXCEPT ![f] = 0]
  /\ nIncEval' = [nIncEval EXCEPT ![f] = 0]
  /\ sentLog' = [sentLog EXCEPT ![f] = <<>>]
  /\ exitRound' = [exitRound EXCEPT ![f] = -1]
  /\ nOut' = [nOut EXCEPT ![f] = 0]
  /\ UNCHANGED <<scn, round, ctxInits, global_cluster_id, local_comp_id, data,
                 registered, updated, net, sentNow, farEpoch, ttContrib, trace,
                 out, mvars>>

\* The entry barrier returns.
EntryBarrierLeave(f) ==
  /\ pc[f] = "EntryBarrier"
  /\ inColl[f]
  /\ EntryBarrierReturns(f)
  /\ inColl' = [inColl EXCEPT ![f] = FALSE]
  /\ pc' = [pc EXCEPT ![f] = PcAfter("EntryBarrier")]
  /\ UNCHANGED <<scn, round, nQuery, ctxInits, global_cluster_id,
                 local_comp_id, data, registered, updated, net, sentNow,
                 barEpoch, farEpoch, ttContrib, trace, nPEval, nIncEval,
                 sentLog, exitRound, out, nOut, mvars>>

\* A new context is made and WCCAutoContext::Init runs on it: both arrays
\* are filled with the maximum and the sync buffer is registered.
ContextInit(f) ==
  /\ pc[f] = "ContextInit"
  /\ local_comp_id' =
       [local_comp_id EXCEPT ![f] = BufferInit(InnerVertices(f), CidMax)]
  /\ global_cluster_id' =
       [global_cluster_id EXCEPT ![f] = FreshBuffer(f)]
  /\ data' = [data EXCEPT ![f] = <<>>]
  /\ updated' = [updated EXCEPT ![f] = {}]
  /\ registered' = [registered EXCEPT ![f] = RegisterSyncBuffer(f)]
  /\ ctxInits' = [ctxInits EXCEPT ![f] = @ + 1]
  /\ trace' = [trace EXCEPT ![f] = Append(@, "ContextInit")]
  /\ pc' = [pc EXCEPT ![f] = PcAfter("ContextInit")]
  /\ UNCHANGED <<scn, inColl, round, nQuery, net, sentNow, barEpoch, farEpoch,
                 ttContrib, nPEval, nIncEval, sentLog, exitRound, out, nOut,
                 mvars>>

\* int round = 0;
ResetRound(f) ==
  /\ pc[f] = "RoundZero"
  /\ round' = [round EXCEPT ![f] = 0]
  /\ pc' = [pc EXCEPT ![f] = PcAfter("RoundZero")]
  /\ UNCHANGED <<scn, inColl, nQuery, ctxInits, global_cluster_id,
                 local_comp_id, data, registered, updated, net, sentNow,
                 barEpoch, farEpoch, ttContrib, trace, nPEval, nIncEval,
                 sentLog, exitRound, out, nOut, mvars>>

\* messages_.Start()
Start(f) ==
  /\ pc[f] = "Start"
  /\ sentNow' = [sentNow EXCEPT ![f] = 0]
  /\ trace' = [trace EXCEPT ![f] = Append(@, "Start")]
  /\ pc' = [pc EXCEPT ![f] = PcAfter("Start")]
  /\ UNCHANGED <<scn, inColl, round, nQuery, ctxInits, global_cluster_id,
                 local_comp_id, data, registered, updated, net, barEpoch,
                 farEpoch, ttContrib, nPEval, nIncEval, sentLog, exitRound,
                 out, nOut, mvars>>

\* messages_.StartARound(), before PEval and before every IncEval.
StartARound(f) ==
  /\ pc[f] \in {"StartARound", "StartARoundInc"}
  /\ trace' = [trace EXCEPT ![f] = Append(@, "StartARound")]
  /\ pc' = [pc EXCEPT ![f] = PcAfter(pc[f])]
  /\ UNCHANGED <<scn, inColl, round, nQuery, ctxInits, global_cluster_id,
                 local_comp_id, data, registered, updated, net, sentNow,
                 barEpoch, farEpoch, ttContrib, nPEval, nIncEval, sentLog,
                 exitRound, out, nOut, mvars>>

\* app_->PEval(...)
PEval(f) ==
  /\ pc[f] = "PEval"
  /\ LET nv == PEvalValues(f, global_cluster_id[f])
     IN /\ global_cluster_id' = [global_cluster_id EXCEPT ![f] = nv]
        /\ updated' = [updated EXCEPT
                         ![f] = @ \cup Changed(f, global_cluster_id[f], nv)]
  /\ nPEval' = [nPEval EXCEPT ![f] = @ + 1]
  /\ trace' = [trace EXCEPT ![f] = Append(@, "PEval")]
  /\ pc' = [pc EXCEPT ![f] = PcAfter("PEval")]
  /\ UNCHANGED <<scn, inColl, round, nQuery, ctxInits, local_comp_id, data,
                 registered, net, sentNow, barEpoch, farEpoch, ttContrib,
                 nIncEval, sentLog, exitRound, out, nOut, mvars>>

\* round++;
IncrementRound(f) ==
  /\ pc[f] = "RoundInc"
  /\ round' = [round EXCEPT ![f] = RoundInc(@)]
  /\ pc' = [pc EXCEPT ![f] = PcAfter("RoundInc")]
  /\ UNCHANGED <<scn, inColl, nQuery, ctxInits, global_cluster_id,
                 local_comp_id, data, registered, updated, net, sentNow,
                 barEpoch, farEpoch, ttContrib, trace, nPEval, nIncEval,
                 sentLog, exitRound, out, nOut, mvars>>

\* app_->IncEval(...)
IncEval(f) ==
  /\ pc[f] = "IncEval"
  /\ LET nv == Propagate(f, global_cluster_id[f])
     IN /\ global_cluster_id' = [global_cluster_id EXCEPT ![f] = nv]
        /\ updated' = [updated EXCEPT
                         ![f] = @ \cup Changed(f, global_cluster_id[f], nv)]
  /\ nIncEval' = [nIncEval EXCEPT ![f] = @ + 1]
  /\ trace' = [trace EXCEPT ![f] = Append(@, "IncEval")]
  /\ pc' = [pc EXCEPT ![f] = PcAfter("IncEval")]
  /\ UNCHANGED <<scn, inColl, round, nQuery, ctxInits, local_comp_id, data,
                 registered, net, sentNow, barEpoch, farEpoch, ttContrib,
                 nPEval, sentLog, exitRound, out, nOut, mvars>>

\* messages_.FinishARound() is entered: the pending updates are flushed.
FinishARoundSend(f) ==
  /\ pc[f] \in {"FinishARound", "FinishARoundInc"}
  /\ ~inColl[f]
  /\ inColl' = [inColl EXCEPT ![f] = TRUE]
  /\ net' = net \cup Outgoing(f)
  /\ sentNow' = [sentNow EXCEPT ![f] = Cardinality(Outgoing(f))]
  /\ sentLog' = [sentLog EXCEPT ![f] = Append(@, Cardinality(Outgoing(f)))]
  /\ updated' = [updated EXCEPT ![f] = {}]
  /\ farEpoch' = [farEpoch EXCEPT ![f] = @ + 1]
  /\ trace' = [trace EXCEPT ![f] = Append(@, "FinishARound")]
  /\ UNCHANGED <<scn, pc, round, nQuery, ctxInits, global_cluster_id,
                 local_comp_id, data, registered, barEpoch, ttContrib, nPEval,
                 nIncEval, exitRound, out, nOut, mvars>>

\* Inside FinishARound, one message of the round is received and merged; a
\* change is kept as a pending update for the next round.
Deliver(f) ==
  /\ pc[f] \in {"FinishARound", "FinishARoundInc"}
  /\ inColl[f]
  /\ \E m \in Inbox(f) :
       LET v == Gid2Vertex(f, m.gid)
           r == Merge(global_cluster_id[f][v], m.val)
       IN /\ global_cluster_id' = [global_cluster_id EXCEPT ![f][v] = r.val]
          /\ updated' = [updated EXCEPT
                           ![f] = IF r.changed THEN @ \cup {v} ELSE @]
          /\ net' = net \ {m}
  /\ UNCHANGED <<scn, pc, inColl, round, nQuery, ctxInits, local_comp_id, data,
                 registered, sentNow, barEpoch, farEpoch, ttContrib, trace,
                 nPEval, nIncEval, sentLog, exitRound, out, nOut, mvars>>

\* FinishARound returns: the round's exchange is complete.
FinishARoundReturn(f) ==
  /\ pc[f] \in {"FinishARound", "FinishARoundInc"}
  /\ inColl[f]
  /\ ExchangeDone(f)
  /\ inColl' = [inColl EXCEPT ![f] = FALSE]
  /\ pc' = [pc EXCEPT ![f] = PcAfter(pc[f])]
  /\ UNCHANGED <<scn, round, nQuery, ctxInits, global_cluster_id,
                 local_comp_id, data, registered, updated, net, sentNow,
                 barEpoch, farEpoch, ttContrib, trace, nPEval, nIncEval,
                 sentLog, exitRound, out, nOut, mvars>>

\* messages_.ToTerminate() is entered: the round's count is contributed.
ToTerminateEnter(f) ==
  /\ pc[f] = "ToTerminate"
  /\ ~inColl[f]
  /\ inColl' = [inColl EXCEPT ![f] = TRUE]
  /\ ttContrib' = [ttContrib EXCEPT ![f] = Append(@, sentNow[f])]
  /\ trace' = [trace EXCEPT ![f] = Append(@, "ToTerminate")]
  /\ UNCHANGED <<scn, pc, round, nQuery, ctxInits, global_cluster_id,
                 local_comp_id, data, registered, updated, net, sentNow,
                 barEpoch, farEpoch, nPEval, nIncEval, sentLog, exitRound,
                 out, nOut, mvars>>

\* ToTerminate returns and the loop test sends the worker on.
ToTerminateReturn(f) ==
  /\ pc[f] = "ToTerminate"
  /\ inColl[f]
  /\ ReductionDone(f)
  /\ inColl' = [inColl EXCEPT ![f] = FALSE]
  /\ LET next == PcAfterLoopTest(TerminateResult(f))
     IN /\ pc' = [pc EXCEPT ![f] = next]
        /\ exitRound' = [exitRound EXCEPT
                           ![f] = IF next = "ExitBarrier" THEN round[f] ELSE @]
  /\ UNCHANGED <<scn, round, nQuery, ctxInits, global_cluster_id,
                 local_comp_id, data, registered, updated, net, sentNow,
                 barEpoch, farEpoch, ttContrib, trace, nPEval, nIncEval,
                 sentLog, out, nOut, mvars>>

\* The exit barrier is entered.
ExitBarrierArrive(f) ==
  /\ pc[f] = "ExitBarrier"
  /\ ~inColl[f]
  /\ inColl' = [inColl EXCEPT ![f] = TRUE]
  /\ barEpoch' = [barEpoch EXCEPT ![f] = @ + 1]
  /\ UNCHANGED <<scn, pc, round, nQuery, ctxInits, global_cluster_id,
                 local_comp_id, data, registered, updated, net, sentNow,
                 farEpoch, ttContrib, trace, nPEval, nIncEval, sentLog,
                 exitRound, out, nOut, mvars>>

\* The exit barrier returns.
ExitBarrierLeave(f) ==
  /\ pc[f] = "ExitBarrier"
  /\ inColl[f]
  /\ ExitBarrierReturns(f)
  /\ inColl' = [inColl EXCEPT ![f] = FALSE]
  /\ pc' = [pc EXCEPT ![f] = PcAfter("ExitBarrier")]
  /\ UNCHANGED <<scn, round, nQuery, ctxInits, global_cluster_id,
                 local_comp_id, data, registered, updated, net, sentNow,
                 barEpoch, farEpoch, ttContrib, trace, nPEval, nIncEval,
                 sentLog, exitRound, out, nOut, mvars>>

\* messages_.Finalize(): the round buffers are released; Query returns.
Finalize(f) ==
  /\ pc[f] = "Finalize"
  /\ sentNow' = [sentNow EXCEPT ![f] = 0]
  /\ trace' = [trace EXCEPT ![f] = Append(@, "Finalize")]
  /\ pc' = [pc EXCEPT ![f] = PcAfter("Finalize")]
  /\ UNCHANGED <<scn, inColl, round, nQuery, ctxInits, global_cluster_id,
                 local_comp_id, data, registered, updated, net, barEpoch,
                 farEpoch, ttContrib, nPEval, nIncEval, sentLog, exitRound,
                 out, nOut, mvars>>

OutputDataAllVertices(f) == global_cluster_id[f]

\* The values Output stores with SetValue: every inner vertex's buffer value.
OutputData(f) == [v \in InnerVertices(f) |-> global_cluster_id[f][v]]

\* ParallelWorker::Output, on the context of the last query (context_ is
\* null before the first Query; a caller outputs only after one).
Output(f) ==
  /\ pc[f] = "ready"
  /\ ctxInits[f] > 0
  /\ nOut[f] < MaxOutputs
  /\ data' = [data EXCEPT ![f] = OutputData(f)]
  /\ out' = [out EXCEPT ![f] = OutputLines(f)]
  /\ nOut' = [nOut EXCEPT ![f] = @ + 1]
  /\ UNCHANGED <<scn, pc, inColl, round, nQuery, ctxInits, global_cluster_id,
                 local_comp_id, registered, updated, net, sentNow, barEpoch,
                 farEpoch, ttContrib, trace, nPEval, nIncEval, sentLog,
                 exitRound, mvars>>

Next ==
  \/ \E f \in Frags : WorkerInit(f)
  \/ \E f \in Frags : QueryCall(f)
  \/ \E f \in Frags : EntryBarrierLeave(f)
  \/ \E f \in Frags : ContextInit(f)
  \/ \E f \in Frags : ResetRound(f)
  \/ \E f \in Frags : Start(f)
  \/ \E f \in Frags : StartARound(f)
  \/ \E f \in Frags : PEval(f)
  \/ \E f \in Frags : FinishARoundSend(f)
  \/ \E f \in Frags : Deliver(f)
  \/ \E f \in Frags : FinishARoundReturn(f)
  \/ \E f \in Frags : ToTerminateEnter(f)
  \/ \E f \in Frags : ToTerminateReturn(f)
  \/ \E f \in Frags : IncrementRound(f)
  \/ \E f \in Frags : IncEval(f)
  \/ \E f \in Frags : ExitBarrierArrive(f)
  \/ \E f \in Frags : ExitBarrierLeave(f)
  \/ \E f \in Frags : Finalize(f)
  \/ \E f \in Frags : Output(f)

Spec == Init /\ [][Next]_vars

\* A step of the process of fragment f: its Init, a call of Query, or a
\* statement of Query.
ProcessStep(f) ==
  \/ WorkerInit(f) \/ QueryCall(f) \/ EntryBarrierLeave(f) \/ ContextInit(f)
  \/ ResetRound(f) \/ Start(f) \/ StartARound(f) \/ PEval(f)
  \/ FinishARoundSend(f) \/ Deliver(f) \/ FinishARoundReturn(f)
  \/ ToTerminateEnter(f) \/ ToTerminateReturn(f) \/ IncrementRound(f)
  \/ IncEval(f) \/ ExitBarrierArrive(f) \/ ExitBarrierLeave(f) \/ Finalize(f)

FragIds == 0..2

\* Every process keeps running, Query is called on all fragments, and the
\* network delivers what was sent; Output is called or not.
FairSpec ==
  Spec /\ \A f \in FragIds : WF_vars(f \in Frags /\ ProcessStep(f))

\* ------------------------------------------------------------ merge experiments
\* The merge lambda on its own: a buffer entry starts at any value, any
\* multiset of incoming values is applied to it in any order, and the value
\* applied last may be applied once more.
CidValues == 0..CidMax

SortedLists(n) ==
  {s \in [1..n -> CidValues] : \A i \in 1..(n - 1) : s[i] <= s[i + 1]}

Multisets == UNION {SortedLists(n) : n \in 0..MaxIncoming}

RemoveAt(s, i) == SubSeq(s, 1, i - 1) \o SubSeq(s, i + 1, Len(s))

MergeInit ==
  /\ scn = SingleGraph
  /\ WorkerInitState
  /\ m_start \in CidValues
  /\ m_in \in Multisets
  /\ m_cur = m_start
  /\ m_pending = m_in
  /\ m_last = NoMerge
  /\ m_again = NoMerge

\* One of the pending values is merged into the entry.
MergeApply ==
  /\ \E i \in 1..Len(m_pending) :
       LET r == Merge(m_cur, m_pending[i])
       IN /\ m_cur' = r.val
          /\ m_last' = [x |-> m_pending[i], val |-> r.val,
                        changed |-> r.changed, done |-> TRUE]
          /\ m_pending' = RemoveAt(m_pending, i)
  /\ m_again' = NoMerge
  /\ UNCHANGED <<m_start, m_in, wvars>>

\* The value merged last is merged a second time.
MergeAgain ==
  /\ m_last.done
  /\ ~m_again.done
  /\ LET r == Merge(m_cur, m_last.x)
     IN /\ m_cur' = r.val
        /\ m_again' = [x |-> m_last.x, val |-> r.val,
                       changed |-> r.changed, done |-> TRUE]
  /\ UNCHANGED <<m_start, m_in, m_pending, m_last, wvars>>

MergeNext ==
  \/ MergeApply
  \/ MergeAgain

MergeSpec == MergeInit /\ [][MergeNext]_vars

\* ------------------------------------------------------------ properties
SameQuery(f, g) == nQuery[f] = nQuery[g]

\* The statements of Query from `int round = 0` on, the loop and what follows.
AfterRoundZero ==
  {"Start", "StartARound", "PEval", "FinishARound", "ToTerminate", "RoundInc",
   "StartARoundInc", "IncEval", "FinishARoundInc", "ExitBarrier", "Finalize"}

\* The statements of the superstep loop, PEval's round included.
InLoop ==
  {"StartARound", "PEval", "FinishARound", "ToTerminate", "RoundInc",
   "StartARoundInc", "IncEval", "FinishARoundInc"}

\* Fragment f has returned from Query number nQuery[f].
QueryDone(f) == pc[f] = "ready" /\ nQuery[f] >= 1

\* C4: for any starting buffer value and any finite multiset of incoming
\* values, once all of them have been merged - in whatever order - the
\* entry holds the minimum of the starting value and the incoming values, so
\* every permutation ends in the same value.
C4_MergeOrderIndependent ==
  m_pending = <<>> =>
    m_cur = Min({m_start} \cup Range(m_in))

C4_Witness ==
  /\ Len(m_in) = MaxIncoming
  /\ m_pending = <<>>
  /\ m_in[1] < m_in[2]
  /\ m_in[2] < m_in[3]
  /\ m_last.x = m_in[2]
  /\ m_start > m_in[3]
  /\ m_cur = m_in[1]

\* C5: once merge(c, x) has been applied, applying merge with the same x
\* again leaves the entry unchanged and returns false.
C5_MergeIdempotent ==
  m_again.done =>
    /\ ~m_again.changed
    /\ m_again.val = m_last.val
    /\ m_cur = m_last.val

C5_Witness ==
  /\ m_again.done
  /\ m_last.changed
  /\ m_again.x = m_last.x
  /\ m_cur = m_last.x
  /\ m_cur < m_start

\* C1: a fragment leaves the superstep loop after round k only if every
\* fragment sent zero messages in round k; in particular, when fragment 0
\* sends a message in round k and the other fragments send none, no fragment
\* leaves the loop after round k.
C1_TerminateOnlyWhenAllIdle ==
  /\ \A f \in Frags : \A g \in Frags :
       (exitRound[f] >= 0 /\ SameQuery(f, g)) =>
         /\ Len(sentLog[g]) > exitRound[f]
         /\ sentLog[g][exitRound[f] + 1] = 0
  /\ \A k \in 1..Len(sentLog[0]) :
       (sentLog[0][k] >= 1
        /\ \A g \in Frags \ {0} :
             SameQuery(0, g) /\ Len(sentLog[g]) >= k /\ sentLog[g][k] = 0) =>
         \A f \in Frags : SameQuery(0, f) => exitRound[f] # k - 1

C1_Witness ==
  /\ scn.fnum >= 3
  /\ \E k \in 1..Len(sentLog[0]) :
       /\ sentLog[0][k] >= 1
       /\ \A g \in Frags \ {0} :
            SameQuery(0, g) /\ Len(sentLog[g]) >= k /\ sentLog[g][k] = 0
       /\ \A f \in Frags : nIncEval[f] >= k /\ round[f] >= k

\* C2: in every query PEval is invoked exactly once and before any IncEval;
\* round is 0 from its declaration through PEval, is incremented once before
\* each IncEval invocation (so it equals the number of IncEval invocations,
\* the one about to run included), and never decreases within a query.
C2_RoundState ==
  \A f \in Frags :
    /\ nPEval[f] <= 1
    /\ nIncEval[f] > 0 => nPEval[f] = 1
    /\ pc[f] \in {"Start", "StartARound", "PEval"} =>
         round[f] = 0 /\ nPEval[f] = 0 /\ nIncEval[f] = 0
    /\ pc[f] \in AfterRoundZero \ {"Start", "StartARound", "PEval"} =>
         nPEval[f] = 1
    /\ pc[f] \in AfterRoundZero =>
         round[f] = nIncEval[f]
                    + (IF pc[f] \in {"StartARoundInc", "IncEval"} THEN 1 ELSE 0)
    /\ QueryDone(f) => nPEval[f] = 1 /\ round[f] = nIncEval[f]

C2_RoundStep ==
  \A f \in Frags :
    /\ pc[f] # "RoundZero" => round'[f] \in {round[f], round[f] + 1}
    /\ (pc[f] # "ready" /\ nIncEval'[f] # nIncEval[f]) =>
         nIncEval'[f] = nIncEval[f] + 1 /\ round'[f] = nIncEval'[f]

\* C2: the state part holds in every reachable state and the step part in
\* every step: PEval once and first, round = number of IncEval invocations,
\* round never decreasing within a query.
C2_RoundMonotone == []C2_RoundState /\ [][C2_RoundStep]_vars

C2_Witness ==
  \E f \in Frags :
    pc[f] = "Finalize" /\ nQuery[f] = 2 /\ nIncEval[f] >= 3 /\ round[f] >= 3

\* C3: leaving the ToTerminate queries aside, the calls a fragment makes
\* form the trace Init, then per query: ContextInit, Start, one or more
\* repetitions of (StartARound, one PEval or IncEval, FinishARound), then
\* Finalize; a later query repeats the per-query trace without another Init.
Lifecycle(tr) == SelectSeq(tr, LAMBDA c : c # "ToTerminate")

TraceStep(q, c) ==
  CASE q = "new"      /\ c = "Init"                 -> "idle"
    [] q = "idle"     /\ c = "ContextInit"          -> "context"
    [] q = "context"  /\ c = "Start"                -> "started"
    [] q = "started"  /\ c = "StartARound"          -> "round"
    [] q = "round"    /\ c \in {"PEval", "IncEval"} -> "computed"
    [] q = "computed" /\ c = "FinishARound"         -> "between"
    [] q = "between"  /\ c = "StartARound"          -> "round"
    [] q = "between"  /\ c = "Finalize"             -> "idle"
    [] OTHER                                        -> "rejected"

RECURSIVE TraceRun(_, _, _)
TraceRun(q, tr, i) ==
  IF i > Len(tr) THEN q ELSE TraceRun(TraceStep(q, tr[i]), tr, i + 1)

Count(tr, c) == Len(SelectSeq(tr, LAMBDA x : x = c))

\* C3: every fragment's trace of calls is accepted by TraceStep, with one
\* Init for all its queries.
C3_ChannelCallOrder ==
  \A f \in Frags :
    /\ TraceRun("new", Lifecycle(trace[f]), 1) # "rejected"
    /\ Count(trace[f], "Init") <= 1
    /\ pc[f] = "ready" => TraceRun("new", Lifecycle(trace[f]), 1) = "idle"

C3_Witness ==
  \E f \in Frags :
    /\ pc[f] = "ready"
    /\ Count(trace[f], "Finalize") = 2
    /\ Count(trace[f], "Start") = 2
    /\ Count(trace[f], "Init") = 1
    /\ Count(trace[f], "IncEval") >= 2

\* C6: on the toy graph every fragment that has run two IncEval supersteps
\* holds component id 1 for each of its inner vertices, whatever the order
\* in which the messages of a round were received; the query never gets
\* stuck and leaves the loop after round 4 at the latest, and after it every
\* owner reports component id 1 for its vertices.
ToyOwnersAgree(f) == \A v \in InnerVertices(f) : global_cluster_id[f][v] = 1

\* A step of some fragment towards or inside a query.
QueryStep ==
  \E f \in Frags :
    \/ WorkerInit(f) \/ QueryCall(f) \/ EntryBarrierLeave(f) \/ ContextInit(f) \/ ResetRound(f)
    \/ Start(f) \/ StartARound(f) \/ PEval(f) \/ FinishARoundSend(f)
    \/ Deliver(f) \/ FinishARoundReturn(f) \/ ToTerminateEnter(f)
    \/ ToTerminateReturn(f) \/ IncrementRound(f) \/ IncEval(f)
    \/ ExitBarrierArrive(f) \/ ExitBarrierLeave(f) \/ Finalize(f)

\* C6: toy graph, component id 1 at every owner within two IncEval
\* supersteps, at termination and in the output.
C6_ToyComponents ==
  scn.name = "toy" =>
    /\ \A f \in Frags :
         /\ (pc[f] \in AfterRoundZero /\ nIncEval[f] >= 2) => ToyOwnersAgree(f)
         /\ QueryDone(f) => ToyOwnersAgree(f)
         /\ pc[f] \in AfterRoundZero => round[f] <= 4
         /\ nOut[f] > 0 =>
              out[f] = IF f = 0 THEN <<"1 1", "2 1">> ELSE <<"3 1">>
    /\ (\E f \in Frags : pc[f] \notin {"constructed", "ready"}) =>
         ENABLED QueryStep

C6_Witness ==
  /\ scn.name = "toy"
  /\ \A f \in Frags : QueryDone(f) /\ nOut[f] > 0 /\ ToyOwnersAgree(f)
  /\ out[0] = <<"1 1", "2 1">>
  /\ out[1] = <<"3 1">>

\* C7: Output writes one line per inner vertex and none for outer vertices,
\* in inner-vertex order, each line the global id, one space and the buffer
\* value; the single fragment holding {1:10, 2:10, 3:7} writes exactly
\* "1 10", "2 10", "3 7".
C7_OutputLines ==
  \A f \in Frags :
    nOut[f] > 0 =>
      /\ Len(out[f]) = scn.ivnum[f]
      /\ \A i \in 1..Len(out[f]) :
           out[f][i] = ToString(scn.gids[f][i]) \o " "
                         \o ToString(global_cluster_id[f][i])
      /\ scn.name = "single" => out[f] = <<"1 10", "2 10", "3 7">>

C7_Witness ==
  /\ scn.name = "single"
  /\ nOut[0] > 0
  /\ global_cluster_id[0] = <<10, 10, 7>>
  /\ out[0] = <<"1 10", "2 10", "3 7">>

\* C8 as claimed: no fragment is at StartARound or PEval of a query while
\* some other fragment has not completed Context.Init for that query.
C8_NoSuperstepBeforeAllInit ==
  \A f \in Frags : \A g \in Frags :
    pc[f] \in {"StartARound", "PEval"} => ctxInits[g] >= nQuery[f]

\* C8 amended: the entry barrier keeps every fragment from Context.Init
\* and from the supersteps of a query until every fragment has entered that
\* query (and so returned from its previous one).
PastEntryBarrier(f) ==
  pc[f] \in {"ContextInit", "RoundZero"} \cup AfterRoundZero

\* C8 amended: past the entry barrier only when all fragments entered.
C8_EntryBarrier ==
  \A f \in Frags : \A g \in Frags :
    PastEntryBarrier(f) =>
      /\ nQuery[g] >= nQuery[f]
      /\ pc[g] # "constructed"

C8_Witness ==
  \E f \in Frags : \E g \in Frags :
    /\ pc[f] = "FinishARound"
    /\ inColl[f]
    /\ nQuery[f] = 2
    /\ pc[g] = "ContextInit"
    /\ ctxInits[g] < nQuery[f]

\* C9: no fragment is at (or past) Finalize of a query while another
\* fragment is still inside the superstep loop of that query: every other
\* fragment has returned from its terminating ToTerminate and entered the
\* exit barrier.
LeftLoop(g) ==
  \/ pc[g] = "ExitBarrier" /\ inColl[g]
  \/ pc[g] = "Finalize"
  \/ pc[g] = "ready"

\* C9: at Finalize only when every fragment has left the loop.
C9_ExitBarrier ==
  \A f \in Frags : \A g \in Frags :
    ((pc[f] = "Finalize" \/ QueryDone(f)) /\ SameQuery(f, g)) => LeftLoop(g)

C9_Witness ==
  \E f \in Frags : \E g \in Frags :
    /\ pc[f] = "Finalize"
    /\ pc[g] = "ExitBarrier"
    /\ scn.fnum >= 3
    /\ exitRound[f] >= 1

\* C10: a fragment begins the computation of round k+1 only when every
\* fragment has computed round k and returned from the FinishARound of round
\* k; the round counters of two fragments inside the loop of the same query
\* differ by at most one.
Computed(f) == nPEval[f] + nIncEval[f]

Exchanged(g) ==
  Len(sentLog[g])
    - (IF pc[g] \in {"FinishARound", "FinishARoundInc"} /\ inColl[g]
       THEN 1 ELSE 0)

\* C10: supersteps in lockstep, round counters at most one apart.
C10_Lockstep ==
  \A f \in Frags : \A g \in Frags :
    (SameQuery(f, g) /\ pc[f] \in InLoop) =>
      /\ Computed(g) >= Computed(f) - 1
      /\ Exchanged(g) >= Computed(f) - 1
      /\ pc[f] = "IncEval" =>
           Computed(g) >= Computed(f) /\ Exchanged(g) >= Computed(f)
      /\ pc[g] \in InLoop =>
           round[f] - round[g] \in {-1, 0, 1}

C10_Witness ==
  \E f \in Frags : \E g \in Frags :
    /\ scn.fnum >= 3
    /\ pc[f] = "IncEval"
    /\ round[f] = 2
    /\ pc[g] = "ToTerminate"
    /\ inColl[g]
    /\ round[g] = 1

\* C11: every Query makes a new context and initializes it exactly once;
\* right after Context.Init every entry of the sync buffer, over inner and
\* outer vertices, is the maximum whatever an earlier query left there, the
\* buffer is the one registered with the channel, and what Output stores
\* after a query are the values of that query's context.
C11_FreshContext ==
  \A f \in Frags :
    /\ ctxInits[f] \in {nQuery[f] - 1, nQuery[f]}
    /\ PastEntryBarrier(f) =>
         ctxInits[f] = (IF pc[f] = "ContextInit" THEN nQuery[f] - 1
                        ELSE nQuery[f])
    /\ pc[f] = "RoundZero" =>
         /\ DOMAIN global_cluster_id[f] = Vertices(f)
         /\ \A v \in Vertices(f) : global_cluster_id[f][v] = CidMax
         /\ registered[f] = nQuery[f]
         /\ data[f] = <<>>
    /\ nOut[f] > 0 =>
         /\ ctxInits[f] = nQuery[f]
         /\ registered[f] = nQuery[f]
         /\ \A v \in InnerVertices(f) : data[f][v] = global_cluster_id[f][v]

C11_Witness ==
  \E f \in Frags :
    /\ pc[f] = "RoundZero"
    /\ nQuery[f] = 2
    /\ out[f] # <<>>
    /\ scn.name = "toy"
    /\ \A v \in Vertices(f) : global_cluster_id[f][v] = CidMax

\* What one call merge(c, x) did: r records x, the value left in the entry
\* and the value returned.
MergeCallOk(c, r, after) ==
  /\ after = r.val
  /\ IF r.x < c THEN r.val = r.x /\ r.changed
     ELSE r.val = c /\ ~r.changed
  /\ r.changed <=> (r.val # c)
  /\ r.val = Min({c, r.x})

\* C12: merge(c, x) stores x and returns true exactly when x < c; when
\* x >= c (x equal to c or x the maximum included) it leaves c and returns
\* false; so it returns true iff the entry changed, and the entry afterwards
\* is min(c, x).
C12_MergeMin ==
  [][/\ m_pending' # m_pending => MergeCallOk(m_cur, m_last', m_cur')
     /\ (m_again'.done /\ ~m_again.done) =>
          MergeCallOk(m_cur, m_again', m_cur')]_vars

C12_Witness ==
  /\ m_pending = <<>>
  /\ CidMax \in Range(m_in)
  /\ m_start < CidMax
  /\ m_last.done /\ m_last.changed /\ m_last.x < m_start
  /\ m_again.done /\ ~m_again.changed /\ m_again.x = m_last.val

\* The messages fragment f puts on the network in a step.
NewFrom(f) == {m \in net' \ net : m.src = f}

\* The messages fragment f receives in a step.
TakenBy(f) == {m \in net \ net' : m.dst = f}

\* C13: the messages of round k leave a fragment in the one flush of round k,
\* before it receives anything of that round; a received update is merged
\* after that flush, sends nothing itself, and a vertex it changes is kept
\* pending, so what it causes leaves in the flush of round k+1 or later.
C13_RoundBoundary ==
  [][\A f \in Frags :
       /\ NewFrom(f) # {} =>
            /\ farEpoch'[f] = farEpoch[f] + 1
            /\ \A m \in NewFrom(f) : m.ep = farEpoch'[f]
       /\ farEpoch'[f] # farEpoch[f] =>
            /\ ~inColl[f] /\ inColl'[f]
            /\ Len(sentLog'[f]) = round[f] + 1
            /\ \A m \in NewFrom(f) :
                 \E v \in updated[f] :
                   m.gid = GetId(f, v) /\ m.val = global_cluster_id[f][v]
       /\ TakenBy(f) # {} =>
            /\ inColl[f]
            /\ Len(sentLog[f]) = round[f] + 1
            /\ round'[f] = round[f]
            /\ farEpoch'[f] = farEpoch[f]
            /\ \A m \in TakenBy(f) : m.ep = farEpoch[f]
            /\ NewFrom(f) = {}
            /\ \A v \in Vertices(f) :
                 global_cluster_id'[f][v] # global_cluster_id[f][v] =>
                   v \in updated'[f]]_vars

C13_Witness ==
  \E f \in Frags :
    /\ pc[f] = "FinishARoundInc"
    /\ inColl[f]
    /\ round[f] = 1
    /\ updated[f] # {}
    /\ \E g \in Frags : g # f /\ sentLog[g] # <<>> /\ sentLog[g][1] > 0

\* The fragments other than f that hold a copy of local vertex v of f: the
\* owner when f holds v as a ghost, the fragments holding a ghost of it when
\* f owns it.
RemoteCopies(f, v) ==
  LET g0 == Owner(GetId(f, v))
  IN IF g0 = f
     THEN {g \in Frags \ {f} : GetId(f, v) \in Range(scn.gids[g])}
     ELSE {g0}

\* C14: when an entry of the registered sync buffer changes during a
\* superstep an update of it is scheduled, stays scheduled until the round's
\* flush, and the flush sends the entry's value to every remote fragment
\* holding a copy: to the owner for a ghost, to every ghost holder for an
\* owned vertex.
C14_ChangeScheduled ==
  [][\A f \in Frags :
       ctxInits'[f] = ctxInits[f] =>
         /\ \A v \in DOMAIN global_cluster_id[f] :
              global_cluster_id'[f][v] # global_cluster_id[f][v] =>
                registered[f] = nQuery[f] /\ v \in updated'[f]
         /\ farEpoch'[f] = farEpoch[f] => updated[f] \subseteq updated'[f]
         /\ farEpoch'[f] # farEpoch[f] =>
              \A v \in updated[f] : \A g \in RemoteCopies(f, v) :
                [src |-> f, dst |-> g, gid |-> GetId(f, v),
                 val |-> global_cluster_id[f][v], ep |-> farEpoch'[f]]
                  \in net']_vars

C14_Witness ==
  \E m1 \in net : \E m2 \in net :
    /\ m1.src = m2.src
    /\ Owner(m1.gid) = m1.src
    /\ Owner(m2.gid) = m2.dst
    /\ m1.ep = m2.ep

\* C15: when the query has terminated (the loop test has sent the fragments
\* out of the loop), every ghost copy of a vertex holds the value its owner
\* holds.
C15_GhostsAgree ==
  \A f \in Frags : \A g \in Frags :
    (exitRound[f] >= 0 /\ exitRound[g] >= 0 /\ SameQuery(f, g)) =>
      \A v \in OuterVertices(f) :
        Owner(GetId(f, v)) = g =>
          global_cluster_id[f][v] =
            global_cluster_id[g][Gid2Vertex(g, GetId(f, v))]

C15_Witness ==
  /\ scn.name = "chain"
  /\ \A f \in Frags : pc[f] = "ready" /\ exitRound[f] >= 1
  /\ \E f \in Frags : \E v \in OuterVertices(f) :
       /\ global_cluster_id[f][v] < scn.seed[GetId(f, v)]
       /\ global_cluster_id[f][v] =
            global_cluster_id[Owner(GetId(f, v))]
                             [Gid2Vertex(Owner(GetId(f, v)), GetId(f, v))]

\* C16: every Query that is called returns on every fragment: the superstep
\* loop exits, Finalize is called, and no fragment stays forever at the entry
\* barrier, inside FinishARound, inside ToTerminate or at the exit barrier.
C16_QueryCompletes ==
  \A f \in FragIds :
    (f \in Frags /\ pc[f] \notin {"constructed", "ready"})
      ~> (f \in Frags /\ pc[f] = "ready" /\ exitRound[f] >= 0
          /\ trace[f][Len(trace[f])] = "Finalize")

C16_Witness ==
  /\ scn.name = "chain"
  /\ \A f \in Frags :
       /\ pc[f] = "ready"
       /\ nQuery[f] = MaxQueries
       /\ exitRound[f] >= 2
       /\ trace[f][Len(trace[f])] = "Finalize"

\* C17: the fragments of a query leave the superstep loop after the same
\* round, having run the same number of IncEval supersteps; once one
\* fragment has left the loop no other fragment goes on to a further round,
\* so none is awaited at the exit barrier while it loops.
C17_SameExitRound ==
  \A f \in Frags : \A g \in Frags :
    (SameQuery(f, g) /\ exitRound[f] >= 0) =>
      /\ exitRound[f] = round[f]
      /\ nIncEval[f] = exitRound[f]
      /\ pc[g] \in AfterRoundZero \cup {"ready"} =>
           /\ round[g] <= exitRound[f]
           /\ nIncEval[g] <= nIncEval[f]
      /\ exitRound[g] >= 0 =>
           /\ exitRound[g] = exitRound[f]
           /\ nIncEval[g] = nIncEval[f]
      /\ pc[g] = "ready" => exitRound[g] = exitRound[f]

C17_Witness ==
  /\ scn.name = "chain"
  /\ \E f \in Frags : \E g \in Frags :
       /\ f # g
       /\ SameQuery(f, g)
       /\ pc[f] = "ExitBarrier" /\ inColl[f]
       /\ pc[g] = "ToTerminate" /\ inColl[g]
       /\ exitRound[f] >= 2
       /\ sentLog[f] # sentLog[g]

\* C18: an entry changed only through merge never increases, and once it
\* has left the maximum it never returns to it.
C18_MonotoneEntry ==
  [][/\ m_cur' <= m_cur
     /\ m_cur < CidMax => m_cur' < CidMax
     /\ m_cur' <= m_start]_vars

C18_Witness ==
  /\ m_start = CidMax
  /\ m_pending = <<>>
  /\ Len(m_in) = MaxIncoming
  /\ m_cur < CidMax
  /\ m_last.done /\ m_last.x = CidMax /\ ~m_last.changed
  /\ m_again.done /\ m_again.val = m_cur

\* The state of the sync buffers and of the message channel.
channelVars ==
  <<global_cluster_id, local_comp_id, registered, updated, net, sentNow,
    farEpoch, ttContrib>>

\* C19: Output changes neither the sync buffer nor the message channel; it
\* copies each inner vertex's buffer value into the context's result data and
\* writes the lines, so a second Output after the same query stores the same
\* data and writes the same lines.
C19_OutputFrame ==
  [][\A f \in Frags :
       nOut'[f] = nOut[f] + 1 =>
         /\ UNCHANGED channelVars
         /\ UNCHANGED <<pc, inColl, round, nQuery, ctxInits, barEpoch>>
         /\ DOMAIN data'[f] = InnerVertices(f)
         /\ \A v \in InnerVertices(f) : data'[f][v] = global_cluster_id[f][v]
         /\ Len(out'[f]) = scn.ivnum[f]
         /\ nOut[f] >= 1 => (out'[f] = out[f] /\ data'[f] = data[f])
         /\ \A g \in Frags \ {f} : out'[g] = out[g] /\ data'[g] = data[g]]_vars

C19_Witness ==
  \E f \in Frags :
    /\ scn.name = "toy"
    /\ nOut[f] = 2
    /\ nQuery[f] = 2
    /\ Len(out[f]) = 2
    /\ DOMAIN data[f] = InnerVertices(f)

====
